---- MODULE Spec2Model ----
(***************************************************************************)
(* A model of the LES subprotocol session of ethereumjs-devp2p             *)
(* (src/les/index.js): the status handshake, its timeout, and the          *)
(* per-version dispatch of inbound and outbound message codes.             *)
(*                                                                         *)
(* JavaScript values are tagged pairs: <<"s", bytes>> is a Buffer,         *)
(* <<"l", items>> an Array, <<"n", k>> a number, <<"u", <<>>>> undefined   *)
(* and <<"null", <<>>>> null.                                              *)
(***************************************************************************)
EXTENDS Integers, Sequences, FiniteSets, TLC

\* ---------------------------------------------------------------- bounds
\* number of non-STATUS messages handed to the transport in one run
MaxSent == 1
\* number of 'message' events emitted in one run
MaxEvents == 2
\* largest message code the code-table checks range over
MaxCode == 40

\* ------------------------------------------------------------ JS values
NULL == <<"null", <<>>>>
UNDEFINED == <<"u", <<>>>>
Buf(bytes) == <<"s", bytes>>
Arr(items) == <<"l", items>>
Num(k) == <<"n", k>>

IsBuffer(v) == v[1] = "s"
IsArray(v) == v[1] = "l"

\* v[i] of JavaScript, i counted from 0
Index(v, i) ==
  IF IsArray(v) /\ i < Len(v[2]) THEN v[2][i + 1]
  ELSE IF IsBuffer(v) /\ i < Len(v[2]) THEN Num(v[2][i + 1])
  ELSE UNDEFINED

\* ------------------------------------------------------- MESSAGE_CODES
STATUS == 0
ANNOUNCE == 1
GET_BLOCK_HEADERS == 2
BLOCK_HEADERS == 3
GET_BLOCK_BODIES == 4
BLOCK_BODIES == 5
GET_RECEIPTS == 6
RECEIPTS == 7
GET_PROOFS == 8
PROOFS == 9
GET_CONTRACT_CODES == 10
CONTRACT_CODES == 11
GET_HEADER_PROOFS == 13
HEADER_PROOFS == 14
SEND_TX == 12
GET_PROOFS_V2 == 15
PROOFS_V2 == 16
GET_HELPER_TRIE_PROOFS == 17
HELPER_TRIE_PROOFS == 18
SEND_TX_V2 == 19
GET_TX_STATUS == 20
TX_STATUS == 21

\* the protocol descriptors LES.les and LES.les2
les == [name |-> "les", version |-> 1, length |-> 15]
les2 == [name |-> "les", version |-> 2, length |-> 21]

\* the first group of case labels of the two switch statements
CasesV1 ==
  {ANNOUNCE, GET_BLOCK_HEADERS, BLOCK_HEADERS, GET_BLOCK_BODIES, BLOCK_BODIES,
   GET_RECEIPTS, RECEIPTS, GET_PROOFS, PROOFS, GET_CONTRACT_CODES,
   CONTRACT_CODES, GET_HEADER_PROOFS, HEADER_PROOFS, SEND_TX}

\* the second group of case labels of the two switch statements
CasesV2 ==
  {GET_PROOFS_V2, PROOFS_V2, GET_HELPER_TRIE_PROOFS, HELPER_TRIE_PROOFS,
   SEND_TX_V2, GET_TX_STATUS, TX_STATUS}

\* ------------------------------------------------------------ util, rlp
\* int2buffer: the big-endian bytes of v, one zero byte for 0
RECURSIVE int2buffer(_)
int2buffer(v) ==
  IF v < 256 THEN Buf(<<v>>)
  ELSE Buf(Append(int2buffer(v \div 256)[2], v % 256))

\* assertEq: Buffers are compared by content, everything else with ===
\* (two distinct Arrays are never ===); TRUE when it does not throw
assertEq(expected, actual) ==
  IF IsBuffer(expected) /\ IsBuffer(actual) THEN expected[2] = actual[2]
  ELSE /\ expected[1] = actual[1]
       /\ expected[1] \in {"null", "u", "n"}
       /\ expected[2] = actual[2]

RECURSIVE Flatten(_)
Flatten(ss) == IF ss = <<>> THEN <<>> ELSE Head(ss) \o Flatten(Tail(ss))

\* rlp.encode for Buffers and Arrays whose encoding is at most 55 bytes long
RECURSIVE rlpEncode(_)
rlpEncode(v) ==
  IF IsBuffer(v)
  THEN IF Len(v[2]) = 1 /\ v[2][1] < 128 THEN v[2]
       ELSE <<128 + Len(v[2])>> \o v[2]
  ELSE LET body == Flatten([i \in 1..Len(v[2]) |-> rlpEncode(v[2][i])])
       IN <<192 + Len(body)>> \o body

Fail == [ok |-> FALSE, val |-> UNDEFINED, rest |-> <<>>]

\* one item off the front of the bytes: [ok, val, rest]
RECURSIVE DecodeOne(_)
RECURSIVE DecodeItems(_)
DecodeOne(bytes) ==
  IF bytes = <<>> THEN Fail
  ELSE LET b == Head(bytes)
           t == Tail(bytes)
       IN IF b < 128 THEN [ok |-> TRUE, val |-> Buf(<<b>>), rest |-> t]
          ELSE IF b <= 183
          THEN LET n == b - 128
               IN IF Len(t) < n THEN Fail
                  ELSE [ok |-> TRUE, val |-> Buf(SubSeq(t, 1, n)),
                        rest |-> SubSeq(t, n + 1, Len(t))]
          ELSE IF b >= 192 /\ b <= 247
          THEN LET n == b - 192
               IN IF Len(t) < n THEN Fail
                  ELSE LET items == DecodeItems(SubSeq(t, 1, n))
                       IN IF ~items.ok THEN Fail
                          ELSE [ok |-> TRUE, val |-> Arr(items.val),
                                rest |-> SubSeq(t, n + 1, Len(t))]
          ELSE Fail

\* the items of a list body: [ok, val]
DecodeItems(bytes) ==
  IF bytes = <<>> THEN [ok |-> TRUE, val |-> <<>>]
  ELSE LET d == DecodeOne(bytes)
       IN IF ~d.ok THEN [ok |-> FALSE, val |-> <<>>]
          ELSE LET r == DecodeItems(d.rest)
               IN IF ~r.ok THEN r
                  ELSE [ok |-> TRUE, val |-> <<d.val>> \o r.val]

\* rlp.decode: fails on truncated input and on trailing bytes
rlpDecode(data) ==
  LET d == DecodeOne(data)
  IN IF d.ok /\ d.rest = <<>> THEN [ok |-> TRUE, val |-> d.val]
     ELSE [ok |-> FALSE, val |-> UNDEFINED]

\* Buffer.from of a Buffer: a copy
BufferFrom(v) == Buf(v[2])

\* ----------------------------------------------------------------- inputs
Versions == {les.version, les2.version}

\* the status objects a caller passes to sendStatus
Head1 == [headTd |-> Buf(<<5>>), headHash |-> Buf(<<170>>), headNum |-> Buf(<<3>>)]
Head2 == [headTd |-> Buf(<<6>>), headHash |-> Buf(<<171>>), headNum |-> Buf(<<4>>)]
Genesis1 == Buf(<<187>>)
Genesis2 == Buf(<<204>>)

StatusObj(nid, head, gen) ==
  [networkId |-> nid, headTd |-> head.headTd, headHash |-> head.headHash,
   headNum |-> head.headNum, genesisHash |-> gen]

StatusInputs ==
  {StatusObj(1, Head1, Genesis1), StatusObj(2, Head1, Genesis1),
   StatusObj(1, Head1, Genesis2), StatusObj(1, Head2, Genesis1)}

\* the objects the calls of sendStatus are tried with
SendStatusInputs ==
  {StatusObj(1, Head1, Genesis1), StatusObj(2, Head1, Genesis1)}

\* the six-field STATUS payload a peer of version v builds from such an object
StatusPayload(v, o) ==
  Arr(<<int2buffer(v), int2buffer(o.networkId), o.headTd, o.headHash,
        o.headNum, o.genesisHash>>)

\* a STATUS payload with too few fields
ShortStatus == Arr(<<int2buffer(1), int2buffer(1)>>)

PeerStatusPayloads ==
  {StatusPayload(v, o) : v \in Versions, o \in StatusInputs} \cup {ShortStatus}

\* payloads of the other messages
Payload1 == Arr(<<Buf(<<1>>), Buf(<<200>>)>>)
Payload2 == Buf(<<7, 8>>)
Payloads == {Payload1, Payload2}

\* the <<code, payload>> pairs delivered and sent: STATUS, a code of each
\* group of case labels and one of none
\* bytes that are no encoding: a list prefix announcing more than follows
Malformed == <<200, 1>>

ReceiveInputs ==
  {<<ANNOUNCE, Payload1>>, <<GET_PROOFS_V2, Payload2>>, <<22, Payload1>>}
SendInputs ==
  {<<STATUS, Payload1>>, <<ANNOUNCE, Payload2>>, <<GET_TX_STATUS, Payload1>>,
   <<22, Payload2>>}

\* ------------------------------------------------------------------ state
VARIABLES
  version,          \* this._version
  status,           \* this._status
  peerStatus,       \* this._peerStatus
  statusTimeoutId,  \* the timer: "armed", "cleared" or "fired"
  elapsed,          \* the 5s of the timer have passed
  disconnects,      \* the reasons passed to this._peer.disconnect
  sent,             \* the <<code, bytes>> pairs passed to this._send
  events,           \* the arguments of the this.emit calls, by event name
  last,             \* the last call made on the session and how it ended
                    \* (the bytes of a decoded STATUS are not kept)
  sentAtEmit,       \* the STATUS messages this._send had been given when
                    \* 'status' was emitted, one entry for every emit
  closed,           \* the owning connection has been torn down
  sess,             \* two sessions joined by a connection, by side (none
                    \* where a single session is studied)
  chan              \* the <<code, bytes>> pairs in flight to each side

vars ==
  <<version, status, peerStatus, statusTimeoutId, elapsed, disconnects, sent,
    events, last, sentAtEmit, closed, sess, chan>>

\* what the calls on the single session leave alone
env == <<closed, sess, chan>>

Sides == {"A", "B"}

\* the fields of a session after its constructor
NewSession(v) ==
  [version |-> v, status |-> NULL, peerStatus |-> NULL,
   statusTimeoutId |-> "armed", disconnects |-> <<>>,
   events |-> [status |-> <<>>, message |-> <<>>]]

NoArg == <<"none", <<>>>>
Call(op, code, arg, result) ==
  [op |-> op, code |-> code, arg |-> arg, result |-> result]

\* the constructor
Init ==
  /\ version \in Versions
  /\ status = NULL
  /\ peerStatus = NULL
  /\ statusTimeoutId = "armed"
  /\ elapsed = FALSE
  /\ disconnects = <<>>
  /\ sent = <<>>
  /\ events = [status |-> <<>>, message |-> <<>>]
  /\ last = Call("new", 0, NoArg, "ok")
  /\ sentAtEmit = <<>>
  /\ closed = FALSE
  /\ sess = <<>>
  /\ chan = <<>>

\* clearTimeout without effect
clearTimeoutNoop(t) == t

\* clearTimeout: a timer that has run or was cleared stays as it is
clearTimeout(t) == IF t = "armed" THEN "cleared" ELSE t

\* _getStatusString returns: status[3].toString('hex') and
\* status[5].toString('hex') throw on undefined and on a number
getStatusString(st) ==
  /\ Index(st, 3)[1] \in {"s", "l"}
  /\ Index(st, 5)[1] \in {"s", "l"}

\* _handleStatus without the comparison of the network ids
handleStatusNoNetworkId(st, pst) ==
  IF st = NULL \/ pst = NULL
  THEN [clear |-> FALSE, error |-> "ok", emits |-> <<>>]
  ELSE IF ~assertEq(Index(st, 0), Index(pst, 0))
  THEN [clear |-> TRUE, error |-> "Protocol version mismatch", emits |-> <<>>]
  ELSE IF ~assertEq(Index(st, 5), Index(pst, 5))
  THEN [clear |-> TRUE, error |-> "Genesis block mismatch", emits |-> <<>>]
  ELSE [clear |-> TRUE, error |-> "ok",
        emits |-> <<[networkId |-> Index(pst, 1),
                     headTd |-> BufferFrom(Index(pst, 2)),
                     headHash |-> BufferFrom(Index(pst, 3)),
                     headNum |-> BufferFrom(Index(pst, 4)),
                     genesisHash |-> BufferFrom(Index(pst, 5))]>>]

\* _handleStatus with the genesis ids compared before the network ids
handleStatusGenesisFirst(st, pst) ==
  IF st = NULL \/ pst = NULL
  THEN [clear |-> FALSE, error |-> "ok", emits |-> <<>>]
  ELSE IF ~assertEq(Index(st, 0), Index(pst, 0))
  THEN [clear |-> TRUE, error |-> "Protocol version mismatch", emits |-> <<>>]
  ELSE IF ~assertEq(Index(st, 5), Index(pst, 5))
  THEN [clear |-> TRUE, error |-> "Genesis block mismatch", emits |-> <<>>]
  ELSE IF ~assertEq(Index(st, 1), Index(pst, 1))
  THEN [clear |-> TRUE, error |-> "NetworkId mismatch", emits |-> <<>>]
  ELSE [clear |-> TRUE, error |-> "ok",
        emits |-> <<[networkId |-> Index(pst, 1),
                     headTd |-> BufferFrom(Index(pst, 2)),
                     headHash |-> BufferFrom(Index(pst, 3)),
                     headNum |-> BufferFrom(Index(pst, 4)),
                     genesisHash |-> BufferFrom(Index(pst, 5))]>>]

\* _handleStatus without the comparison of the protocol versions
handleStatusNoVersion(st, pst) ==
  IF st = NULL \/ pst = NULL
  THEN [clear |-> FALSE, error |-> "ok", emits |-> <<>>]
  ELSE IF ~assertEq(Index(st, 1), Index(pst, 1))
  THEN [clear |-> TRUE, error |-> "NetworkId mismatch", emits |-> <<>>]
  ELSE IF ~assertEq(Index(st, 5), Index(pst, 5))
  THEN [clear |-> TRUE, error |-> "Genesis block mismatch", emits |-> <<>>]
  ELSE [clear |-> TRUE, error |-> "ok",
        emits |-> <<[networkId |-> Index(pst, 1),
                     headTd |-> BufferFrom(Index(pst, 2)),
                     headHash |-> BufferFrom(Index(pst, 3)),
                     headNum |-> BufferFrom(Index(pst, 4)),
                     genesisHash |-> BufferFrom(Index(pst, 5))]>>]

\* _handleStatus on the two records: whether clearTimeout is reached, the
\* error thrown ("ok" when it returns) and the 'status' events emitted
handleStatus(st, pst) ==
  IF st = NULL \/ pst = NULL
  THEN [clear |-> FALSE, error |-> "ok", emits |-> <<>>]
  ELSE IF ~assertEq(Index(st, 0), Index(pst, 0))
  THEN [clear |-> TRUE, error |-> "Protocol version mismatch", emits |-> <<>>]
  ELSE IF ~assertEq(Index(st, 1), Index(pst, 1))
  THEN [clear |-> TRUE, error |-> "NetworkId mismatch", emits |-> <<>>]
  ELSE IF ~assertEq(Index(st, 5), Index(pst, 5))
  THEN [clear |-> TRUE, error |-> "Genesis block mismatch", emits |-> <<>>]
  ELSE [clear |-> TRUE, error |-> "ok",
        emits |-> <<[networkId |-> Index(pst, 1),
                     headTd |-> BufferFrom(Index(pst, 2)),
                     headHash |-> BufferFrom(Index(pst, 3)),
                     headNum |-> BufferFrom(Index(pst, 4)),
                     genesisHash |-> BufferFrom(Index(pst, 5))]>>]

\* the number of STATUS messages among the pairs given to this._send
statusSent(out) == Cardinality({i \in 1..Len(out) : out[i][1] = STATUS})

\* sendStatus without its early return
alreadySentNever(st) == FALSE

\* the early return of sendStatus
alreadySent(st) == st # NULL

\* sendStatus with _handleStatus called before this._send
SendStatusCheckFirst(o) ==
  IF alreadySent(status)
  THEN /\ last' = Call("sendStatus", STATUS, <<"status", o>>, "ok")
       /\ UNCHANGED <<version, status, peerStatus, statusTimeoutId, elapsed,
                      disconnects, sent, events, sentAtEmit>>
  ELSE LET st == Arr(<<int2buffer(version), int2buffer(o.networkId), o.headTd,
                       o.headHash, o.headNum, o.genesisHash>>)
           h == handleStatus(st, peerStatus)
       IN /\ status' = st
          /\ statusTimeoutId' =
               IF h.clear THEN clearTimeout(statusTimeoutId)
               ELSE statusTimeoutId
          /\ events' = [events EXCEPT !.status = @ \o h.emits]
          /\ sentAtEmit' =
               sentAtEmit \o [i \in 1..Len(h.emits) |-> statusSent(sent)]
          /\ sent' =
               IF h.error = "ok" THEN Append(sent, <<STATUS, rlpEncode(st)>>)
               ELSE sent
          /\ last' = Call("sendStatus", STATUS, <<"status", o>>, h.error)
          /\ UNCHANGED <<version, peerStatus, elapsed, disconnects>>

\* sendStatus(o)
SendStatus(o) ==
  IF alreadySent(status)
  THEN /\ last' = Call("sendStatus", STATUS, <<"status", o>>, "ok")
       /\ UNCHANGED <<version, status, peerStatus, statusTimeoutId, elapsed,
                      disconnects, sent, events, sentAtEmit>>
  ELSE LET st == Arr(<<int2buffer(version), int2buffer(o.networkId), o.headTd,
                       o.headHash, o.headNum, o.genesisHash>>)
           h == handleStatus(st, peerStatus)
       IN /\ status' = st
          /\ IF ~getStatusString(st)
             THEN /\ last' = Call("sendStatus", STATUS, <<"status", o>>, "TypeError")
                  /\ UNCHANGED <<statusTimeoutId, sent, events, sentAtEmit>>
             ELSE /\ sent' = Append(sent, <<STATUS, rlpEncode(st)>>)
                  /\ statusTimeoutId' =
                       IF h.clear THEN clearTimeout(statusTimeoutId)
                       ELSE statusTimeoutId
                  /\ events' = [events EXCEPT !.status = @ \o h.emits]
                  /\ sentAtEmit' =
                       sentAtEmit \o [i \in 1..Len(h.emits) |-> statusSent(sent')]
                  /\ last' = Call("sendStatus", STATUS, <<"status", o>>, h.error)
          /\ UNCHANGED <<version, peerStatus, elapsed, disconnects>>

\* the switch of _handleMessage with the second group compared to LES.les
receiveBreaksAnyVersion(v, code) ==
  \/ code \in CasesV1 /\ v >= les.version
  \/ code \in CasesV2 /\ v >= les.version

\* the switch of _handleMessage with > for >= in the first group
receiveBreaksStrict(v, code) ==
  \/ code \in CasesV1 /\ v > les.version
  \/ code \in CasesV2 /\ v >= les2.version

\* whether the switch of _handleMessage leaves by break for this code
receiveBreaks(v, code) ==
  \/ code \in CasesV1 /\ v >= les.version
  \/ code \in CasesV2 /\ v >= les2.version

\* the STATUS case without its guard
uncontrolledStatusNever(pst) == FALSE

\* the guard of the STATUS case: assertEq(this._peerStatus, null) throws
uncontrolledStatus(pst) == ~assertEq(pst, NULL)

\* _handleMessage without the throw of rlp.decode
decodeThrowsNever(d) == FALSE

\* rlp.decode(data) throws, before anything else is done
decodeThrows(d) == ~d.ok

\* _handleMessage(code, data)
HandleMessage(code, data) ==
  LET d == rlpDecode(data)
      payload == d.val
      arg == IF code = STATUS /\ d.ok THEN NoArg ELSE <<"data", data>>
  IN IF decodeThrows(d)
     THEN /\ last' = Call("receive", code, arg, "decode error")
          /\ UNCHANGED <<version, status, peerStatus, statusTimeoutId, elapsed,
                         disconnects, sent, events, sentAtEmit>>
     ELSE IF code = STATUS
     THEN IF uncontrolledStatus(peerStatus)
          THEN /\ last' = Call("receive", code, arg, "Uncontrolled status message")
               /\ UNCHANGED <<version, status, peerStatus, statusTimeoutId,
                              elapsed, disconnects, sent, events, sentAtEmit>>
          ELSE LET h == handleStatus(status, payload)
               IN /\ peerStatus' = payload
                  /\ IF ~getStatusString(payload)
                     THEN /\ last' = Call("receive", code, arg, "TypeError")
                          /\ UNCHANGED <<statusTimeoutId, events, sentAtEmit>>
                     ELSE /\ statusTimeoutId' =
                               IF h.clear THEN clearTimeout(statusTimeoutId)
                               ELSE statusTimeoutId
                          /\ events' = [events EXCEPT !.status = @ \o h.emits]
                          /\ sentAtEmit' =
                               sentAtEmit \o
                               [i \in 1..Len(h.emits) |-> statusSent(sent)]
                          /\ last' = Call("receive", code, arg, h.error)
                  /\ UNCHANGED <<version, status, elapsed, disconnects, sent>>
     ELSE /\ events' =
               IF receiveBreaks(version, code)
               THEN [events EXCEPT !.message = Append(@, <<code, payload>>)]
               ELSE events
          /\ last' = Call("receive", code, arg, "ok")
          /\ UNCHANGED <<version, status, peerStatus, statusTimeoutId, elapsed,
                         disconnects, sent, sentAtEmit>>

\* the switch of sendMessage with the second group compared to LES.les
sendBreaksAnyVersion(v, code) ==
  \/ code \in CasesV1 /\ v >= les.version
  \/ code \in CasesV2 /\ v >= les.version

\* the switch of sendMessage with > for >= in the first group
sendBreaksStrict(v, code) ==
  \/ code \in CasesV1 /\ v > les.version
  \/ code \in CasesV2 /\ v >= les2.version

\* whether the switch of sendMessage leaves by break for this code
sendBreaks(v, code) ==
  \/ code \in CasesV1 /\ v >= les.version
  \/ code \in CasesV2 /\ v >= les2.version

\* the error sendMessage throws for this code, "ok" when it sends
sendError(v, code) ==
  IF code = STATUS THEN "Please send status message through .sendStatus"
  ELSE IF sendBreaks(v, code) THEN "ok"
  ELSE IF code \in CasesV1 \cup CasesV2 THEN "Code not allowed with version"
  ELSE "Unknown code"

\* sendMessage(code, payload)
SendMessage(code, payload) ==
  /\ sent' =
       IF sendError(version, code) = "ok"
       THEN Append(sent, <<code, rlpEncode(payload)>>)
       ELSE sent
  /\ last' = Call("sendMessage", code, <<"payload", payload>>,
                  sendError(version, code))
  /\ UNCHANGED <<version, status, peerStatus, statusTimeoutId, elapsed,
                 disconnects, events, sentAtEmit>>

\* the 5s of the status timer pass: its callback runs unless it was cleared
Timeout ==
  /\ ~elapsed
  /\ elapsed' = TRUE
  /\ IF statusTimeoutId = "armed"
     THEN /\ statusTimeoutId' = "fired"
          /\ disconnects' = Append(disconnects, "TIMEOUT")
     ELSE UNCHANGED <<statusTimeoutId, disconnects>>
  /\ last' = Call("timer", 0, NoArg, "ok")
  /\ UNCHANGED <<version, status, peerStatus, sent, events, sentAtEmit>>
  /\ UNCHANGED env

DoSendStatus ==
  /\ \E o \in SendStatusInputs : SendStatus(o)
  /\ UNCHANGED env
DoReceiveStatus ==
  /\ \E p \in PeerStatusPayloads : HandleMessage(STATUS, rlpEncode(p))
  /\ UNCHANGED env
DoReceive ==
  /\ Len(events.message) < MaxEvents
  /\ \E m \in ReceiveInputs : HandleMessage(m[1], rlpEncode(m[2]))
  /\ UNCHANGED env
DoSendMessage ==
  /\ Cardinality({i \in 1..Len(sent) : sent[i][1] # STATUS}) < MaxSent
  /\ \E m \in SendInputs : SendMessage(m[1], m[2])
  /\ UNCHANGED env

DoReceiveMalformed ==
  /\ \E c \in {STATUS, ANNOUNCE} : HandleMessage(c, Malformed)
  /\ UNCHANGED env

Next ==
  \/ DoSendStatus
  \/ DoReceiveStatus
  \/ DoReceive
  \/ DoReceiveMalformed
  \/ DoSendMessage
  \/ Timeout

Spec == Init /\ [][Next]_vars

\* --------------------------------------------------------------- teardown
\* the owning connection is torn down: it disarms the timer of the session
Teardown ==
  /\ ~closed
  /\ closed' = TRUE
  /\ statusTimeoutId' = clearTimeout(statusTimeoutId)
  /\ last' = Call("teardown", 0, NoArg, "ok")
  /\ UNCHANGED <<version, status, peerStatus, elapsed, disconnects, sent,
                 events, sentAtEmit, sess, chan>>

\* sendStatus when this._send of the closed connection throws: the record is
\* stored before the call
SendStatusClosed(o) ==
  /\ closed
  /\ ~alreadySent(status)
  /\ status' = Arr(<<int2buffer(version), int2buffer(o.networkId), o.headTd,
                     o.headHash, o.headNum, o.genesisHash>>)
  /\ last' = Call("sendStatus", STATUS, <<"status", o>>, "send error")
  /\ UNCHANGED <<version, peerStatus, statusTimeoutId, elapsed, disconnects,
                 sent, events, sentAtEmit>>

\* sendMessage when this._send of the closed connection throws
SendMessageClosed(code, payload) ==
  /\ closed
  /\ last' = Call("sendMessage", code, <<"payload", payload>>,
                  IF sendError(version, code) = "ok" THEN "send error"
                  ELSE sendError(version, code))
  /\ UNCHANGED <<version, status, peerStatus, statusTimeoutId, elapsed,
                 disconnects, sent, events, sentAtEmit>>

DoSendStatusClosed ==
  /\ \E o \in SendStatusInputs : SendStatusClosed(o)
  /\ UNCHANGED env
DoSendMessageClosed ==
  /\ \E m \in SendInputs : SendMessageClosed(m[1], m[2])
  /\ UNCHANGED env

NextTeardown ==
  \/ DoSendStatus
  \/ DoReceiveStatus
  \/ DoReceive
  \/ DoReceiveMalformed
  \/ DoSendMessage
  \/ Timeout
  \/ Teardown
  \/ DoSendStatusClosed
  \/ DoSendMessageClosed

\* the session and the teardown of its connection
SpecTeardown == Init /\ [][NextTeardown]_vars

\* ------------------------------------------------------ two sessions
\* The methods of LES as functions of the fields of one session, for two
\* sessions whose this._send appends to the other side's inbound queue.
Other(s) == IF s = "A" THEN "B" ELSE "A"

\* the status objects each side calls sendStatus with
PairInputs(s) ==
  IF s = "A" THEN {StatusObj(1, Head1, Genesis1)} ELSE StatusInputs

\* what a call leaves behind: the fields of the session and what it handed
\* to this._send
Outcome(r, out) == [sess |-> r, out |-> out]

\* sendStatus(o) on the session r
sendStatusOn(r, o) ==
  IF alreadySent(r.status)
  THEN Outcome(r, <<>>)
  ELSE LET st == Arr(<<int2buffer(r.version), int2buffer(o.networkId),
                       o.headTd, o.headHash, o.headNum, o.genesisHash>>)
           h == handleStatus(st, r.peerStatus)
       IN Outcome([r EXCEPT !.status = st,
                            !.statusTimeoutId =
                              IF h.clear THEN clearTimeout(@) ELSE @,
                            !.events.status = @ \o h.emits],
                  <<<<STATUS, rlpEncode(st)>>>>)

\* the STATUS case of _handleMessage without the call of _handleStatus
statusCaseOnNoHandle(r, payload) ==
  IF uncontrolledStatus(r.peerStatus)
  THEN r
  ELSE [r EXCEPT !.peerStatus = payload]

\* the STATUS case of _handleMessage on the session r
statusCaseOn(r, payload) ==
  IF uncontrolledStatus(r.peerStatus)
  THEN r
  ELSE IF ~getStatusString(payload)
  THEN [r EXCEPT !.peerStatus = payload]
  ELSE LET h == handleStatus(r.status, payload)
       IN [r EXCEPT !.peerStatus = payload,
                    !.statusTimeoutId =
                      IF h.clear THEN clearTimeout(@) ELSE @,
                    !.events.status = @ \o h.emits]

\* the other cases of _handleMessage with a clearTimeout before the emit
messageCaseOnClearsTimer(r, code, payload) ==
  IF receiveBreaks(r.version, code)
  THEN [r EXCEPT !.events.message = Append(@, <<code, payload>>),
                 !.statusTimeoutId = clearTimeout(@)]
  ELSE r

\* the other cases of _handleMessage on the session r
messageCaseOn(r, code, payload) ==
  IF receiveBreaks(r.version, code)
  THEN [r EXCEPT !.events.message = Append(@, <<code, payload>>)]
  ELSE r

\* rlp.decode, tabulated for the encodings the two sessions put in flight
WirePayloads ==
  {rlpEncode(StatusPayload(v, o)) : v \in Versions, o \in StatusInputs}
  \cup {rlpEncode(m[2]) : m \in SendInputs}
DecodeTable == [w \in WirePayloads |-> rlpDecode(w)]
rlpDecodeWire(data) ==
  IF data \in WirePayloads THEN DecodeTable[data] ELSE rlpDecode(data)

\* _handleMessage(code, data) on the session r
handleMessageOn(r, code, data) ==
  LET d == rlpDecodeWire(data)
  IN IF decodeThrows(d) THEN r
     ELSE IF code = STATUS THEN statusCaseOn(r, d.val)
     ELSE messageCaseOn(r, code, d.val)

\* sendMessage(code, payload) on the session r
sendMessageOn(r, code, payload) ==
  Outcome(r, IF sendError(r.version, code) = "ok"
             THEN <<<<code, rlpEncode(payload)>>>>
             ELSE <<>>)

\* the callback of the status timer on the session r
timeoutOn(r) ==
  [r EXCEPT !.statusTimeoutId = "fired",
            !.disconnects = Append(@, "TIMEOUT")]

\* the single session is not part of the pair
single ==
  <<version, status, peerStatus, statusTimeoutId, elapsed, disconnects, sent,
    events, last, sentAtEmit, closed>>

\* the non-STATUS messages in a queue
Traffic(q) == Cardinality({i \in 1..Len(q) : q[i][1] # STATUS})

InitPair ==
  /\ version = les.version
  /\ status = NULL
  /\ peerStatus = NULL
  /\ statusTimeoutId = "armed"
  /\ elapsed = FALSE
  /\ disconnects = <<>>
  /\ sent = <<>>
  /\ events = [status |-> <<>>, message |-> <<>>]
  /\ last = Call("new", 0, NoArg, "ok")
  /\ sentAtEmit = <<>>
  /\ closed = FALSE
  /\ sess \in [Sides -> {NewSession(v) : v \in Versions}]
  /\ chan = [s \in Sides |-> <<>>]

PSendStatus(s) ==
  /\ \E o \in PairInputs(s) :
       LET res == sendStatusOn(sess[s], o)
       IN /\ sess' = [sess EXCEPT ![s] = res.sess]
          /\ chan' = [chan EXCEPT ![Other(s)] = @ \o res.out]
  /\ UNCHANGED single

\* the transport hands the oldest message in flight to the session
PDeliver(s) ==
  /\ chan[s] # <<>>
  /\ LET m == Head(chan[s])
     IN sess' = [sess EXCEPT ![s] = handleMessageOn(sess[s], m[1], m[2])]
  /\ chan' = [chan EXCEPT ![s] = Tail(chan[s])]
  /\ UNCHANGED single

PSendMessage(s) ==
  /\ Len(sess[Other(s)].events.message) + Traffic(chan[Other(s)]) < MaxSent
  /\ \E m \in SendInputs :
       LET res == sendMessageOn(sess[s], m[1], m[2])
       IN /\ sess' = [sess EXCEPT ![s] = res.sess]
          /\ chan' = [chan EXCEPT ![Other(s)] = @ \o res.out]
  /\ UNCHANGED single

PTimeout(s) ==
  /\ sess[s].statusTimeoutId = "armed"
  /\ sess' = [sess EXCEPT ![s] = timeoutOn(sess[s])]
  /\ UNCHANGED chan
  /\ UNCHANGED single

NextPair ==
  \/ \E s \in Sides : PSendStatus(s)
  \/ \E s \in Sides : PDeliver(s)
  \/ \E s \in Sides : PSendMessage(s)
  \/ \E s \in Sides : PTimeout(s)

SpecPair == InitPair /\ [][NextPair]_vars

\* the handshake alone: no traffic besides the STATUS messages
NextHandshake ==
  \/ \E s \in Sides : PSendStatus(s)
  \/ \E s \in Sides : PDeliver(s)
  \/ \E s \in Sides : PTimeout(s)

\* each side calls sendStatus, and the transport delivers what it was given
SpecHandshake ==
  /\ InitPair
  /\ [][NextHandshake]_vars
  /\ \A s \in Sides : WF_vars(PSendStatus(s)) /\ WF_vars(PDeliver(s))

\* ------------------------------------------------------------ vocabulary
\* both status records are present
Both == status # NULL /\ peerStatus # NULL

\* the protocol version, network id and genesis id of the two records agree
Compatible ==
  /\ Both
  /\ \A i \in {0, 1, 5} :
       IsBuffer(Index(status, i)) /\ Index(status, i) = Index(peerStatus, i)

\* the number of 'status' events emitted
StatusCount == Len(events.status)

\* the number of STATUS messages handed to the transport
StatusSentCount == Cardinality({i \in 1..Len(sent) : sent[i][1] = STATUS})

\* the code table of the protocol: the minimum version of every code
MinVersion == [c \in 0..21 |-> IF c <= 14 THEN 1 ELSE 2]
isCodeAllowed(v, c) == c \in DOMAIN MinVersion /\ MinVersion[c] <= v

\* the protocol descriptor of a version
Descriptor(v) == IF v = les.version THEN les ELSE les2

\* the error that names the first field in which two records differ, in the
\* order protocol version, network id, genesis id; "ok" when none differs
FirstMismatch(st, pst) ==
  IF Index(st, 0) # Index(pst, 0) THEN "Protocol version mismatch"
  ELSE IF Index(st, 1) # Index(pst, 1) THEN "NetworkId mismatch"
  ELSE IF Index(st, 5) # Index(pst, 5) THEN "Genesis block mismatch"
  ELSE "ok"

\* ----------------------------------------------------------------- claims
\* C1: when the two status records agree on protocol version, network id and
\* genesis id, the 'status' event has been emitted exactly once as soon as
\* both are present and never while one is missing, the timer is no longer
\* armed from then on, and no disconnect is requested afterwards.
C1_NegotiatesOnce ==
  /\ [](Compatible => StatusCount = 1 /\ statusTimeoutId # "armed")
  /\ [](~Both => StatusCount = 0)
  /\ [][Compatible => disconnects' = disconnects]_vars

\* a session that negotiated, whose deadline then passed without a disconnect
C1_Witness ==
  /\ Compatible
  /\ StatusCount = 1
  /\ elapsed
  /\ statusTimeoutId = "cleared"
  /\ disconnects = <<>>

\* C2: when the two records differ in protocol version, network id or
\* genesis id, the call that makes both present ends with an error and
\* emits nothing, and no 'status' event is ever emitted on the session.
C2_MismatchNeverNegotiates ==
  /\ [](Both /\ ~Compatible => StatusCount = 0)
  /\ [][~Both /\ Both' /\ ~Compatible'
        => last'.result # "ok" /\ events' = events]_vars

\* a mismatched session on which a further STATUS has been tried
C2_Witness ==
  /\ Both
  /\ ~Compatible
  /\ getStatusString(peerStatus)
  /\ last.op = "receive"
  /\ last.code = STATUS
  /\ StatusCount = 0

\* C3: no 'message' event has been emitted and no non-STATUS message has been
\* handed to the transport unless the session has negotiated.
C3_HandshakeFirst ==
  (\/ events.message # <<>>
   \/ \E i \in 1..Len(sent) : sent[i][1] # STATUS)
  => Compatible

\* C4: sendMessage(c, payload) hands exactly the pair of c and the encoded
\* payload to the transport when c is not STATUS and the code table allows c
\* at the session's version, and otherwise throws and hands over nothing.
C4_SendIffAllowed ==
  /\ \A v \in Versions : \A c \in 0..MaxCode :
       (sendError(v, c) = "ok") <=> (c # STATUS /\ isCodeAllowed(v, c))
  /\ [][last'.op = "sendMessage"
        => IF last'.code # STATUS /\ isCodeAllowed(version, last'.code)
           THEN /\ last'.result = "ok"
                /\ Len(sent') = Len(sent) + 1
                /\ SubSeq(sent', 1, Len(sent)) = sent
                /\ sent'[Len(sent')][1] = last'.code
                /\ rlpDecode(sent'[Len(sent')][2]) =
                     [ok |-> TRUE, val |-> last'.arg[2]]
           ELSE last'.result # "ok" /\ sent' = sent]_vars

\* a version-2 session that has just transmitted 0x14
C4_Witness ==
  /\ version = 2
  /\ last.op = "sendMessage"
  /\ last.code = 20
  /\ last.result = "ok"
  /\ sent # <<>>
  /\ sent[Len(sent)][1] = 20

\* C5: once a local status is stored it never changes and no further STATUS
\* message is handed to the transport; at most one is ever transmitted.
C5_SendStatusOnce ==
  /\ [](StatusSentCount <= 1)
  /\ [][status # NULL
        => status' = status /\ StatusSentCount' = StatusSentCount]_vars

\* a second sendStatus with another network id than the stored one
C5_Witness ==
  /\ status # NULL
  /\ last.op = "sendStatus"
  /\ int2buffer(last.arg[2].networkId) # Index(status, 1)
  /\ StatusSentCount = 1

\* C6: once a peer status is stored, every inbound STATUS ends with an error
\* and changes neither record and emits nothing.
C6_SecondStatusRejected ==
  [][peerStatus # NULL /\ last'.op = "receive" /\ last'.code = STATUS
     => /\ last'.result # "ok"
        /\ peerStatus' = peerStatus
        /\ status' = status
        /\ events' = events]_vars

\* a second STATUS rejected before the local status was sent
C6_Witness ==
  /\ peerStatus # NULL
  /\ status = NULL
  /\ last.op = "receive"
  /\ last.code = STATUS
  /\ last.result = "Uncontrolled status message"

\* C7: when the deadline passes on a session that has not negotiated, a
\* disconnect with the timeout reason is requested, and at most one such
\* request is made in the life of the session.
C7_TimeoutDisconnects ==
  [][/\ (~elapsed /\ elapsed' /\ ~Compatible
           => disconnects' = Append(disconnects, "TIMEOUT"))
     /\ Len(disconnects') <= 1]_vars

\* C8: after the timer has fired neither status record changes and no
\* 'status' event is emitted.
C8_TimeoutTerminal ==
  [][statusTimeoutId = "fired"
     => /\ status' = status
        /\ peerStatus' = peerStatus
        /\ StatusCount' = StatusCount]_vars

\* C9: an inbound non-STATUS message whose code the table does not allow at
\* the session's version returns without error, emits nothing and changes
\* neither status record nor the timer.
C9_DisallowedDropped ==
  [][/\ last'.op = "receive"
     /\ last'.code # STATUS
     /\ rlpDecode(last'.arg[2]).ok
     /\ ~isCodeAllowed(version, last'.code)
     => /\ last'.result = "ok"
        /\ events' = events
        /\ status' = status
        /\ peerStatus' = peerStatus
        /\ statusTimeoutId' = statusTimeoutId
        /\ disconnects' = disconnects]_vars

\* a version-1 session that has just dropped 0x0f
C9_Witness ==
  /\ version = 1
  /\ last.op = "receive"
  /\ last.code = 15
  /\ last.result = "ok"
  /\ events.message = <<>>

\* C10: a delivery of a non-STATUS code the table allows appends exactly one
\* 'message' event with that code and the payload whose encoding was
\* delivered; every other step leaves the 'message' events as they are.
C10_MessagesInOrder ==
  [][IF /\ last'.op = "receive"
        /\ last'.code # STATUS
        /\ isCodeAllowed(version, last'.code)
        /\ rlpDecode(last'.arg[2]).ok
     THEN \E p \in Payloads :
            /\ rlpEncode(p) = last'.arg[2]
            /\ events'.message = Append(events.message, <<last'.code, p>>)
            /\ events'.status = events.status
     ELSE events'.message = events.message]_vars

\* two deliveries surfaced in order
C10_Witness ==
  /\ version = 2
  /\ events.message = <<<<1, Payload1>>, <<15, Payload2>>>>

\* C11: after the teardown of the connection the timer is not armed, no
\* disconnect is requested, and every sendMessage, sendStatus and receive
\* call ends with an error, changes neither status record, hands nothing to
\* the transport and emits nothing.
C11_InertAfterTeardown ==
  /\ [](closed => statusTimeoutId # "armed")
  /\ [][closed
        => /\ disconnects' = disconnects
           /\ status' = status
           /\ peerStatus' = peerStatus
           /\ sent' = sent
           /\ events' = events
           /\ (last'.op \in {"sendMessage", "sendStatus", "receive"}
                 => last'.result # "ok")]_vars

\* C12: a delivery whose bytes do not decode ends with an error and changes
\* nothing of the session, whatever its code: no event, no status record, no
\* timer, no disconnect, nothing sent.
\* The handlers read none of `last`, so what follows such a delivery is what
\* would have followed without it.
C12_MalformedFailsAlone ==
  [][/\ last'.op = "receive"
     /\ last'.arg[1] = "data"
     /\ ~rlpDecode(last'.arg[2]).ok
     => /\ last'.result # "ok"
        /\ UNCHANGED <<version, status, peerStatus, statusTimeoutId, elapsed,
                       disconnects, sent, events, sentAtEmit>>]_vars

\* a malformed STATUS has just failed on a session that sent its own status
\* and still waits for the peer's
C12_Witness ==
  /\ last.op = "receive"
  /\ last.code = STATUS
  /\ last.result = "decode error"
  /\ status # NULL
  /\ peerStatus = NULL

\* C13: every code a session of version v accepts or sends, STATUS included,
\* is below the length of the descriptor of v.
C13_CodesWithinLength ==
  /\ \A v \in Versions : \A c \in 0..MaxCode :
       (c = STATUS \/ receiveBreaks(v, c) \/ sendError(v, c) = "ok")
       => c < Descriptor(v).length
  /\ \A i \in 1..Len(sent) : sent[i][1] < Descriptor(version).length
  /\ \A i \in 1..Len(events.message) :
       events.message[i][1] < Descriptor(version).length

\* C14: the timer is disarmed exactly when the session has negotiated or the
\* timer has fired.
C14_DisarmedIffNegotiatedOrFired ==
  (statusTimeoutId # "armed")
  <=> (StatusCount >= 1 \/ statusTimeoutId = "fired")

\* C15: the call that makes both records present ends with the error of the
\* first differing field in the order protocol version, network id, genesis
\* id, and without error when none of the three differs, whatever the head
\* weight, head hash and head number are.
C15_FirstDifferingField ==
  [][~Both /\ Both' /\ last'.result # "TypeError"
     => last'.result = FirstMismatch(status', peerStatus')]_vars

\* records that differ in version and in network id: the version is reported
C15_Witness ==
  /\ Both
  /\ last.result = "Protocol version mismatch"
  /\ Index(status, 1) # Index(peerStatus, 1)
  /\ Index(status, 5) = Index(peerStatus, 5)

\* C16: what version 1 accepts or permits, version 2 does too; the codes
\* 0x0f..0x15 are accepted and permitted at version 2 only; a code outside
\* the table is accepted and permitted nowhere; and at each version the
\* codes receive surfaces are the codes sendMessage permits.
C16_CodeSpaceMonotonic ==
  /\ \A c \in 0..MaxCode :
       /\ receiveBreaks(1, c) => receiveBreaks(2, c)
       /\ sendError(1, c) = "ok" => sendError(2, c) = "ok"
  /\ \A v \in Versions : \A c \in GET_PROOFS_V2..TX_STATUS :
       /\ receiveBreaks(v, c) <=> v = 2
       /\ sendError(v, c) = "ok" <=> v = 2
  /\ \A v \in Versions : \A c \in (0..MaxCode) \ DOMAIN MinVersion :
       ~receiveBreaks(v, c) /\ sendError(v, c) # "ok"
  /\ \A v \in Versions : \A c \in 1..MaxCode :
       receiveBreaks(v, c) <=> sendError(v, c) = "ok"
  /\ \A i \in 1..Len(events.message) :
       isCodeAllowed(version, events.message[i][1])
  /\ \A i \in 1..Len(sent) : isCodeAllowed(version, sent[i][1])

\* a version-2 session that surfaced 0x0f and transmitted 0x14
C16_Witness ==
  /\ version = 2
  /\ \E i \in 1..Len(events.message) : events.message[i][1] = 15
  /\ \E i \in 1..Len(sent) : sent[i][1] = 20

BothOn(s) == sess[s].status # NULL /\ sess[s].peerStatus # NULL

\* the handshake has run on both sides
PairDone == \A s \in Sides : BothOn(s)

\* the 'status' event that carries the fields of a status record
Carried(st) ==
  [networkId |-> Index(st, 1), headTd |-> Index(st, 2),
   headHash |-> Index(st, 3), headNum |-> Index(st, 4),
   genesisHash |-> Index(st, 5)]

\* what of a session a handshake sets
Handshake(r) ==
  <<r.status, r.peerStatus, r.events.status, r.statusTimeoutId>>

\* C17: a sendMessage call and the receive of a non-STATUS message leave the
\* local status, the peer status, the 'status' events and the timer of the
\* session as they were, and no call on one session changes a field of the
\* other session.
C17_FrameAndIsolation ==
  [][\A s \in Sides :
       /\ PSendMessage(s) => sess'[s] = sess[s]
       /\ PDeliver(s) /\ Head(chan[s])[1] # STATUS
          => Handshake(sess'[s]) = Handshake(sess[s])
       /\ PSendStatus(s) \/ PDeliver(s) \/ PSendMessage(s) \/ PTimeout(s)
          => sess'[Other(s)] = sess[Other(s)]]_vars

\* A has received a message while its timer is armed and B is untouched
C17_Witness ==
  /\ sess["A"].events.message # <<>>
  /\ sess["A"].statusTimeoutId = "armed"
  /\ sess["A"].status # NULL
  /\ sess["B"].peerStatus = NULL
  /\ sess["B"].events.message = <<>>

\* C18: with each side calling sendStatus and the transport delivering in
\* order, both sides come to hold both records; from then on each has
\* emitted 'status' exactly once, carrying the other side's fields, when the
\* versions, network ids and genesis ids agree, and neither has emitted when
\* they do not; and a side never emits before its records agree.
C18_PairNegotiates ==
  /\ <>PairDone
  /\ [](PairDone
        => \A s \in Sides :
             sess[s].events.status =
               IF FirstMismatch(sess["A"].status, sess["B"].status) = "ok"
               THEN <<Carried(sess[Other(s)].status)>>
               ELSE <<>>)
  /\ [](\A s \in Sides :
          sess[s].events.status # <<>>
          => /\ BothOn(s)
             /\ sess[s].peerStatus = sess[Other(s)].status
             /\ FirstMismatch(sess[s].status, sess[s].peerStatus) = "ok")

\* both sides negotiated, and B learnt a head other than its own
C18_Witness ==
  /\ PairDone
  /\ \A s \in Sides : Len(sess[s].events.status) = 1
  /\ sess["A"].events.status[1].headNum # sess["B"].events.status[1].headNum

====
